---- MODULE Spec2Model ----
(***************************************************************************)
(* A model of MettleMock's reconciliation core:                            *)
(*   - package db : factory.Pool (sync.Once guarded pool), RandPassword,   *)
(*     EnsureDatabaseRole, DropDatabaseAndRole, RevokeAndKillSessions      *)
(*   - package k8s: checksumData                                           *)
(* Each component has its own specification (SpecPool, SpecPw, SpecDb,     *)
(* SpecSum); the variables of the other components stay at their initial   *)
(* values.                                                                 *)
(***************************************************************************)
EXTENDS Integers, Sequences, FiniteSets, TLC

VARIABLES
    \* ---- factory (package db) ----
    dsn,          \* factory.dsn: "valid" or "malformed" (fixed at construction)
    once,         \* factory.once: [done |-> BOOLEAN, m |-> holder of the mutex, 0 = free]
    pool,         \* factory.pool: 0 = nil, k > 0 = the k-th pool ever created
    initErr,      \* factory.initErr: "nil", "parse" or "connect"
    cpc,          \* position of each caller inside Pool
    cctx,         \* the context each caller passed to its current Pool call
    cret,         \* what each caller's last Pool call returned
    ccalls,       \* number of Pool calls each caller has started
    initRuns,     \* how many times the body given to once.Do has started
    outcomes,     \* every (pool, err) pair some Pool call has returned
    \* ---- RandPassword ----
    rp_pc,        \* "idle", "loop" or "returned"
    rp_req,       \* the argument n as passed
    rp_n,         \* n after the n <= 0 default
    rp_i,         \* loop index i
    rp_out,       \* out, a sequence of length n
    rp_b,         \* b[0], the last byte read (-1 before the first read)
    \* ---- the PostgreSQL cluster, as far as one tenant is concerned ----
    cluster,      \* [role, login, pw, db, owner, grantAll, publicConnect, sessions]
    \* ---- the administrator's current operation ----
    op,           \* "none", "ensure", "teardown" or "suspend"
    opc,          \* position inside the operation
    stmts,        \* statements the operation has issued so far: <<[s, ok], ...>>
    rotation,     \* the rotation argument of EnsureDatabaseRole
    ens_d,        \* d, the parsed duration
    opret,        \* what the operation returned
    opsRun,       \* number of operations started
    startCluster, \* the cluster as it was when the operation was called
    \* ---- checksumData ----
    data,         \* the data mapping : key -> value
    orders,       \* per checksumData call: the order `range data` delivered the keys in
    sums,         \* per checksumData call: [fed, sum], the bytes hashed and the result
    data2,        \* a second data mapping, hashed beside data
    \* ---- factory.Close ----
    clpc,         \* position of each caller inside Close: "idle", "release" or "done"
    clv,          \* the value of f.pool each caller's Close has read
    released,     \* how many times the pool's connections have been released
    panicked,     \* whether a Close call has dereferenced a nil pool
    closes,       \* number of Close calls started
    \* ---- the Secret store and UpsertOpaqueSecret ----
    secret,       \* the object under namespace/name, as stored
    ups,           \* each UpsertOpaqueSecret caller: position, arguments, locals
    api           \* counters: [writes, touches, deletes]

poolVars == <<dsn, once, pool, initErr, cpc, cctx, cret, ccalls, initRuns, outcomes>>
randVars == <<rp_pc, rp_req, rp_n, rp_i, rp_out, rp_b>>
opVars == <<op, opc, stmts, rotation, ens_d, opret, opsRun, startCluster>>
dbVars == <<cluster, opVars>>
sumVars == <<data, orders, sums, data2>>
closeVars == <<clpc, clv, released, panicked, closes>>
secVars == <<secret, ups, api>>
vars == <<poolVars, randVars, dbVars, sumVars, closeVars, secVars>>

(***************************************************************************)
(* Bounds of the model.                                                    *)
(***************************************************************************)
NumCallers == 3
MaxCalls == 2

Callers == 1..NumCallers
Contexts == {"live", "cancelled"}

(***************************************************************************)
(* factory.Pool : one shared pool behind sync.Once.                        *)
(***************************************************************************)
NoOutcome == [pool |-> 0, err |-> "none"]

InitPool ==
    /\ dsn \in {"valid", "malformed"}
    /\ once = [done |-> FALSE, m |-> 0]
    /\ pool = 0
    /\ initErr = "nil"
    /\ cpc = [c \in Callers |-> "idle"]
    /\ cctx = [c \in Callers |-> "live"]
    /\ cret = [c \in Callers |-> NoOutcome]
    /\ ccalls = [c \in Callers |-> 0]
    /\ initRuns = 0
    /\ outcomes = {}

\* The factory as constructed and never used (the other specifications).
IdlePool ==
    /\ InitPool
    /\ dsn = "valid"

\* A retry-until-success guard: initialise whenever there is no pool yet.
NeedsInitIfNil(o, p) == p = 0

\* sync.Once: the function runs only while the done flag is unset.
NeedsInit(o, p) == ~o.done

\* A caller enters Pool(ctx).  A caller that has returned may call again.
PoolCall(c, cx) ==
    /\ cpc[c] \in {"idle", "returned"}
    /\ ccalls[c] < MaxCalls
    /\ cpc' = [cpc EXCEPT ![c] = "do"]
    /\ cctx' = [cctx EXCEPT ![c] = cx]
    /\ ccalls' = [ccalls EXCEPT ![c] = @ + 1]
    /\ UNCHANGED <<dsn, once, pool, initErr, cret, initRuns, outcomes,
                 randVars, dbVars, sumVars, closeVars, secVars>>

\* once.Do, fast path: a set done flag skips the mutex.
OnceDo(c) ==
    /\ cpc[c] = "do"
    /\ cpc' = [cpc EXCEPT ![c] = IF NeedsInit(once, pool) THEN "lock" ELSE "read"]
    /\ UNCHANGED <<dsn, once, pool, initErr, cctx, cret, ccalls, initRuns, outcomes,
                 randVars, dbVars, sumVars, closeVars, secVars>>

\* once.Do, slow path: take the mutex, test the flag again, run the body
\* while holding the mutex.  Callers that find the mutex taken wait here.
OnceLock(c) ==
    /\ cpc[c] = "lock"
    /\ once.m = 0
    /\ IF NeedsInit(once, pool)
       THEN /\ once' = [once EXCEPT !.m = c]
            /\ cpc' = [cpc EXCEPT ![c] = "parse"]
            /\ initRuns' = initRuns + 1
       ELSE /\ cpc' = [cpc EXCEPT ![c] = "read"]
            /\ UNCHANGED <<once, initRuns>>
    /\ UNCHANGED <<dsn, pool, initErr, cctx, cret, ccalls, outcomes,
                 randVars, dbVars, sumVars, closeVars, secVars>>

\* Body: pgxpool.ParseConfig(f.dsn); an error is cached and ends the body.
BodyParse(c) ==
    /\ cpc[c] = "parse"
    /\ IF dsn = "malformed"
       THEN /\ initErr' = "parse"
            /\ once' = [done |-> TRUE, m |-> 0]
            /\ cpc' = [cpc EXCEPT ![c] = "read"]
       ELSE /\ cpc' = [cpc EXCEPT ![c] = "new"]
            /\ UNCHANGED <<initErr, once>>
    /\ UNCHANGED <<dsn, pool, cctx, cret, ccalls, initRuns, outcomes,
                 randVars, dbVars, sumVars, closeVars, secVars>>

\* Body: pgxpool.NewWithConfig(ctx, cfg) with the first caller's context;
\* it may fail (always can, with any context).  The body's end sets done.
BodyNew(c) ==
    /\ cpc[c] = "new"
    /\ \E ok \in BOOLEAN :
          IF ok
          THEN /\ pool' = initRuns
               /\ UNCHANGED initErr
          ELSE /\ initErr' = "connect"
               /\ UNCHANGED pool
    /\ once' = [done |-> TRUE, m |-> 0]
    /\ cpc' = [cpc EXCEPT ![c] = "read"]
    /\ UNCHANGED <<dsn, cctx, cret, ccalls, initRuns, outcomes,
                 randVars, dbVars, sumVars, closeVars, secVars>>

\* After once.Do: return (nil, initErr) or (pool, nil).
PoolReturn(c) ==
    /\ cpc[c] = "read"
    /\ LET r == IF initErr # "nil" THEN [pool |-> 0, err |-> initErr]
                                   ELSE [pool |-> pool, err |-> "nil"]
       IN /\ cret' = [cret EXCEPT ![c] = r]
          /\ outcomes' = outcomes \cup {r}
    /\ cpc' = [cpc EXCEPT ![c] = "returned"]
    /\ UNCHANGED <<dsn, once, pool, initErr, cctx, ccalls, initRuns,
                 randVars, dbVars, sumVars, closeVars, secVars>>


(***************************************************************************)
(* RandPassword : rejection sampling over pwAlphabet.                      *)
(***************************************************************************)
ByteRange == 256
Byte == 0..(ByteRange - 1)
DefaultLen == 24
MaxPwLen == 3
PwArgs == (-1)..MaxPwLen

\* The byte values rand.Read is made to deliver: the values next to every
\* multiple of 16, among them 0, 63, 64, 191, 192 and 255.
EntropySample == {b \in Byte : b % 16 \in {0, 15}}

pwAlphabet ==
    << "A","B","C","D","E","F","G","H","I","J","K","L","M",
       "N","O","P","Q","R","S","T","U","V","W","X","Y","Z",
       "a","b","c","d","e","f","g","h","i","j","k","l","m",
       "n","o","p","q","r","s","t","u","v","w","x","y","z",
       "0","1","2","3","4","5","6","7","8","9","-","_" >>

AlphabetChars == {pwAlphabet[k] : k \in 1..Len(pwAlphabet)}

\* byte(x) of a non-constant int x: the low eight bits.
ToByte(x) == x % ByteRange

\* limit := byte(256 - (256 % len(pwAlphabet)))
limit == ToByte(ByteRange - (ByteRange % Len(pwAlphabet)))

\* if b[0] >= limit { continue }
Rejected(b) == b >= limit

\* pwAlphabet[int(b[0]) % len(pwAlphabet)]  (Go indexes from 0)
Pick(b) == pwAlphabet[(b % Len(pwAlphabet)) + 1]

InitRand ==
    /\ rp_pc = "idle"
    /\ rp_req = 0
    /\ rp_n = 0
    /\ rp_i = 0
    /\ rp_out = << >>
    /\ rp_b = -1

\* Entry: n defaults to 24 when n <= 0; out := make([]byte, n); i := 0.
RandEnter(n) ==
    /\ rp_pc' = "loop"
    /\ rp_req' = n
    /\ rp_n' = IF n <= 0 THEN DefaultLen ELSE n
    /\ rp_out' = [k \in 1..(IF n <= 0 THEN DefaultLen ELSE n) |-> "NUL"]
    /\ rp_i' = 0
    /\ rp_b' = -1

\* One pass through the loop body with rand.Read delivering byte b.
RandIter(b) ==
    /\ rp_b' = b
    /\ IF Rejected(b)
       THEN UNCHANGED <<rp_out, rp_i>>
       ELSE /\ rp_out' = [rp_out EXCEPT ![rp_i + 1] = Pick(b)]
            /\ rp_i' = rp_i + 1
    /\ UNCHANGED <<rp_pc, rp_req, rp_n>>

\* The loop condition i < n fails: return string(out).
RandExit ==
    /\ rp_pc' = "returned"
    /\ UNCHANGED <<rp_req, rp_n, rp_i, rp_out, rp_b>>

\* A direct call RandPassword(n).
RandPasswordCall(n) ==
    /\ rp_pc = "idle"
    /\ op = "none"
    /\ RandEnter(n)
    /\ UNCHANGED <<poolVars, dbVars, sumVars, closeVars, secVars>>

\* One evaluation of `for i < n { ... }` in a direct call.
RandPasswordStep ==
    /\ rp_pc = "loop"
    /\ op = "none"
    /\ IF rp_i < rp_n
       THEN \E b \in EntropySample : RandIter(b)
       ELSE RandExit
    /\ UNCHANGED <<poolVars, dbVars, sumVars, closeVars, secVars>>


(***************************************************************************)
(* The PostgreSQL cluster and the statements the administrator issues.     *)
(* One tenant: role User and database DbName.  Other is some other role,   *)
(* "postgres" the maintenance database the admin pool is connected to.     *)
(***************************************************************************)
User == "app1"
DbName == "tenant1"
Other == "other"
MaxOps == 2

SessionKinds ==
    { [usr |-> User, db |-> DbName],
      [usr |-> User, db |-> "postgres"],
      [usr |-> Other, db |-> DbName] }

NoPw == << >>
OldPw == << "old" >>
ThrowawayPw == << "md5(random()::text)" >>

\* A cluster the program can meet: a database of this tenant exists only
\* together with its owning role, and sessions only on what exists.
WellFormed(cl) ==
    /\ cl.db => (cl.role /\ cl.owner = User)
    /\ ~cl.db => (cl.owner = "none" /\ ~cl.grantAll /\ ~cl.publicConnect)
    /\ cl.role => cl.pw = OldPw
    /\ ~cl.role => (~cl.login /\ cl.pw = NoPw)
    /\ \A x \in cl.sessions :
          /\ x.usr = User => (cl.role /\ cl.login)
          /\ x.db = DbName => cl.db

Clusters ==
    { cl \in [role : BOOLEAN, login : BOOLEAN, pw : {NoPw, OldPw},
              db : BOOLEAN, owner : {"none", User}, grantAll : BOOLEAN,
              publicConnect : BOOLEAN, sessions : SUBSET SessionKinds] :
         WellFormed(cl) }

EmptyCluster ==
    [role |-> FALSE, login |-> FALSE, pw |-> NoPw, db |-> FALSE, owner |-> "none",
     grantAll |-> FALSE, publicConnect |-> FALSE, sessions |-> {}]

NoReturn == [pw |-> << >>, rotated |-> FALSE, err |-> "none"]

\* Whether the server accepts the statement in cluster cl.
StmtApplies(st, cl) ==
    CASE st = "create_role"    -> TRUE
      [] st = "create_db"      -> cl.db \/ cl.role
      [] st = "grant_all"      -> cl.db /\ cl.role
      [] st = "alter_password" -> cl.role
      [] st = "terminate_db"   -> TRUE
      [] st = "revoke_connect" -> cl.db
      [] st = "drop_db"        -> ~cl.db \/ ~(\E x \in cl.sessions : x.db = DbName)
      [] st = "drop_role"      -> ~cl.role \/ ~cl.db
      [] st = "terminate_user" -> TRUE
      [] st = "revoke_all"     -> cl.db /\ cl.role
      [] st = "nologin"        -> cl.role

\* The cluster after the statement has run successfully (arg: the bound
\* parameter of ALTER ROLE ... PASSWORD $1).
Apply(st, cl, arg) ==
    CASE st = "create_role" ->
            IF cl.role THEN cl
            ELSE [cl EXCEPT !.role = TRUE, !.login = TRUE, !.pw = ThrowawayPw]
      [] st = "create_db" ->
            IF cl.db THEN cl
            ELSE [cl EXCEPT !.db = TRUE, !.owner = User, !.publicConnect = TRUE]
      [] st = "grant_all" -> [cl EXCEPT !.grantAll = TRUE]
      [] st = "alter_password" -> [cl EXCEPT !.login = TRUE, !.pw = arg]
      [] st = "terminate_db" ->
            [cl EXCEPT !.sessions = {x \in @ : x.db # DbName}]
      [] st = "revoke_connect" -> [cl EXCEPT !.publicConnect = FALSE]
      [] st = "drop_db" ->
            [cl EXCEPT !.db = FALSE, !.owner = "none", !.grantAll = FALSE,
                       !.publicConnect = FALSE]
      [] st = "drop_role" ->
            [cl EXCEPT !.role = FALSE, !.login = FALSE, !.pw = NoPw]
      [] st = "terminate_user" ->
            [cl EXCEPT !.sessions = {x \in @ : x.usr # User}]
      [] st = "revoke_all" -> [cl EXCEPT !.grantAll = FALSE]
      [] st = "nologin" -> [cl EXCEPT !.login = FALSE]

\* pool.Exec(ctx, st, arg): `up` is whether the context is live and the
\* connection works.  Gives the statement's success and the new cluster.
Exec(st, cl, arg, up) ==
    IF up /\ StmtApplies(st, cl)
    THEN [ok |-> TRUE, cl |-> Apply(st, cl, arg)]
    ELSE [ok |-> FALSE, cl |-> cl]

AllOk(ss) == \A k \in 1..Len(ss) : ss[k].ok
Names(ss) == [k \in 1..Len(ss) |-> ss[k].s]

InitDb ==
    /\ cluster \in Clusters
    /\ op = "none"
    /\ opc = "idle"
    /\ stmts = << >>
    /\ rotation = "0s"
    /\ ens_d = 0
    /\ opret = NoReturn
    /\ opsRun = 0
    /\ startCluster = cluster

IdleDb ==
    /\ InitDb
    /\ cluster = EmptyCluster

\* Entry of any administrator operation.
OpEnter(o, first) ==
    /\ opc \in {"idle", "returned"}
    /\ opsRun < MaxOps
    /\ op' = o
    /\ opc' = first
    /\ stmts' = << >>
    /\ opret' = NoReturn
    /\ opsRun' = opsRun + 1
    /\ startCluster' = cluster
    /\ UNCHANGED cluster

\* The tenant's clients (and others) keep opening sessions whenever the
\* server lets them in.
CanConnect(x, cl) ==
    /\ x.usr = User => (cl.role /\ cl.login)
    /\ x.db = DbName =>
          (cl.db /\ (cl.publicConnect \/ (x.usr = User /\ (cl.grantAll \/ cl.owner = User))))

ClientConnect(x) ==
    /\ x \notin cluster.sessions
    /\ CanConnect(x, cluster)
    /\ cluster' = [cluster EXCEPT !.sessions = @ \cup {x}]
    /\ UNCHANGED <<poolVars, randVars, opVars, sumVars, closeVars, secVars>>


(***************************************************************************)
(* EnsureDatabaseRole(ctx, pool, dbName, user, rotation)                   *)
(***************************************************************************)
PwLen == 24
Intervals == {"0s", "1h", "-5m", "every day"}

\* time.ParseDuration on the interval strings used here (d in seconds);
\* on a parse error it returns d = 0 with the error.
ParseDuration(str) ==
    CASE str = "0s"  -> [d |-> 0, err |-> FALSE]
      [] str = "1h"  -> [d |-> 3600, err |-> FALSE]
      [] str = "-5m" -> [d |-> -300, err |-> FALSE]
      [] OTHER       -> [d |-> 0, err |-> TRUE]

ErrReturn == [pw |-> << >>, rotated |-> FALSE, err |-> "error"]

EnsureDatabaseRoleCall(rot) ==
    /\ OpEnter("ensure", "create_role")
    /\ rotation' = rot
    /\ ens_d' = 0
    /\ UNCHANGED <<poolVars, randVars, sumVars, closeVars, secVars>>

\* A provisioning statement whose error is returned to the caller.
EnsureExec(st, next) ==
    /\ op = "ensure"
    /\ opc = st
    /\ \E up \in BOOLEAN :
          LET r == Exec(st, cluster, << >>, up)
          IN /\ cluster' = r.cl
             /\ stmts' = Append(stmts, [s |-> st, ok |-> r.ok])
             /\ IF r.ok
                THEN /\ opc' = next
                     /\ UNCHANGED opret
                ELSE /\ opc' = "returned"
                     /\ opret' = ErrReturn
    /\ UNCHANGED <<op, rotation, ens_d, opsRun, startCluster>>
    /\ UNCHANGED <<poolVars, randVars, sumVars, closeVars, secVars>>

\* DO $$ ... IF NOT EXISTS (role) THEN CREATE ROLE ... $$
EnsureCreateRole == EnsureExec("create_role", "create_db")

\* DO $$ ... IF NOT EXISTS (database) THEN CREATE DATABASE ... OWNER ... $$
EnsureCreateDb == EnsureExec("create_db", "grant_all")

\* GRANT ALL PRIVILEGES ...: the error is discarded.
EnsureGrant ==
    /\ op = "ensure"
    /\ opc = "grant_all"
    /\ \E up \in BOOLEAN :
          LET r == Exec("grant_all", cluster, << >>, up)
          IN /\ cluster' = r.cl
             /\ stmts' = Append(stmts, [s |-> "grant_all", ok |-> r.ok])
    /\ opc' = "rotation"
    /\ UNCHANGED <<op, rotation, ens_d, opret, opsRun, startCluster>>
    /\ UNCHANGED <<poolVars, randVars, sumVars, closeVars, secVars>>

\* d, _ := time.ParseDuration(rotation); then, in either branch of
\* `if d <= 0`, pw := RandPassword(24) is entered.
EnsureRotation ==
    /\ op = "ensure"
    /\ opc = "rotation"
    /\ ens_d' = ParseDuration(rotation).d
    /\ RandEnter(PwLen)
    /\ opc' = "randpw"
    /\ UNCHANGED <<cluster, op, stmts, rotation, opret, opsRun, startCluster>>
    /\ UNCHANGED <<poolVars, sumVars, closeVars, secVars>>

\* ALTER ROLE ... WITH LOGIN PASSWORD $1 with pw; return pw, true, err.
AlterAndReturn(pw, up) ==
    LET r == Exec("alter_password", cluster, pw, up)
    IN /\ cluster' = r.cl
       /\ stmts' = Append(stmts, [s |-> "alter_password", ok |-> r.ok])
       /\ opret' = [pw |-> pw, rotated |-> TRUE,
                    err |-> IF r.ok THEN "nil" ELSE "error"]
       /\ opc' = "returned"

\* RandPassword(24) running inside EnsureDatabaseRole: one evaluation of its
\* loop; when the loop ends, the ALTER ROLE and the return follow.
EnsureRandPassword ==
    /\ op = "ensure"
    /\ opc = "randpw"
    /\ IF rp_i < rp_n
       THEN /\ \E b \in EntropySample : RandIter(b)
            /\ UNCHANGED <<cluster, opc, stmts, opret>>
       ELSE /\ RandExit
            /\ \E up \in BOOLEAN :
                  IF ens_d <= 0
                  THEN AlterAndReturn(rp_out, up)
                  ELSE AlterAndReturn(rp_out, up)
    /\ UNCHANGED <<op, rotation, ens_d, opsRun, startCluster>>
    /\ UNCHANGED <<poolVars, sumVars, closeVars, secVars>>

(***************************************************************************)
(* DropDatabaseAndRole (Teardown) and RevokeAndKillSessions (SuspendAccess)*)
(***************************************************************************)
\* The statements of DropDatabaseAndRole, in a changed order.
DropStmtsDropFirst == << "drop_db", "terminate_db", "revoke_connect", "drop_role" >>

\* The statements of DropDatabaseAndRole, in program order.
DropStmts == << "terminate_db", "revoke_connect", "drop_db", "drop_role" >>

\* The statements of RevokeAndKillSessions, in program order.
RevokeStmts == << "terminate_user", "revoke_all", "nologin" >>

\* Returning the first statement error instead of nil.
DropResultFirstErr(ss) == IF AllOk(ss) THEN "nil" ELSE "error"

\* return nil
DropResult(ss) == "nil"

\* return nil
RevokeResult(ss) == "nil"

\* One `_, _ = pool.Exec(...)` of a best-effort operation: the statement at
\* the next position of list runs, its result is discarded; after the last
\* one the operation returns result (computed from all statements issued).
BestEffortStep(list, result) ==
    /\ opc = "exec"
    /\ LET k == Len(stmts) + 1
       IN \E up \in BOOLEAN :
             LET r == Exec(list[k], cluster, << >>, up)
                 ss == Append(stmts, [s |-> list[k], ok |-> r.ok])
             IN /\ cluster' = r.cl
                /\ stmts' = ss
                /\ IF k = Len(list)
                   THEN /\ opc' = "returned"
                        /\ opret' = [NoReturn EXCEPT !.err = result]
                   ELSE UNCHANGED <<opc, opret>>
    /\ UNCHANGED <<op, rotation, ens_d, opsRun, startCluster>>
    /\ UNCHANGED <<poolVars, randVars, sumVars, closeVars, secVars>>

DropDatabaseAndRoleCall ==
    /\ OpEnter("teardown", "exec")
    /\ UNCHANGED <<rotation, ens_d>>
    /\ UNCHANGED <<poolVars, randVars, sumVars, closeVars, secVars>>

DropDatabaseAndRoleStep ==
    /\ op = "teardown"
    /\ BestEffortStep(DropStmts, DropResult(stmts'))

RevokeAndKillSessionsCall ==
    /\ OpEnter("suspend", "exec")
    /\ UNCHANGED <<rotation, ens_d>>
    /\ UNCHANGED <<poolVars, randVars, sumVars, closeVars, secVars>>

RevokeAndKillSessionsStep ==
    /\ op = "suspend"
    /\ BestEffortStep(RevokeStmts, RevokeResult(stmts'))


(***************************************************************************)
(* checksumData (package k8s).  Keys and values are byte strings, written  *)
(* as sequences of byte values.                                            *)
(***************************************************************************)
MaxKeys == 3

Keys == { << >>, <<1>>, <<1, 1>>, <<1, 2>>, <<2>> }
Values == { << >>, <<0>>, <<1>> }

DataMaps ==
    UNION { [ks -> Values] : ks \in {x \in SUBSET Keys : Cardinality(x) <= MaxKeys} }

\* All orders in which a map with key set ks can be iterated.
IterOrders(ks) ==
    { o \in [1..Cardinality(ks) -> ks] :
         \A a, b \in 1..Cardinality(ks) : o[a] = o[b] => a = b }

\* Go's s < t on strings: bytewise lexicographic order.
StrLess(a, b) ==
    \E k \in 1..(Len(b)) :
       /\ k <= Len(a) + 1
       /\ \A m \in 1..(k - 1) : a[m] = b[m]
       /\ (k = Len(a) + 1 \/ a[k] < b[k])

Swap(q, a, b) == [q EXCEPT ![a] = q[b], ![b] = q[a]]

\* An inner loop that never moves a key to the front: j > 1.
InnerGoesOnShort(q, j) == j > 1 /\ StrLess(q[j + 1], q[j])

\* j > 0 && keys[j] < keys[j-1]   (q is 1-based: keys[j] is q[j+1])
InnerGoesOn(q, j) == j > 0 /\ StrLess(q[j + 1], q[j])

RECURSIVE InnerLoop(_, _)
\* for j := i; j > 0 && keys[j] < keys[j-1]; j-- { swap }
InnerLoop(q, j) ==
    IF InnerGoesOn(q, j) THEN InnerLoop(Swap(q, j + 1, j), j - 1) ELSE q

RECURSIVE OuterLoop(_, _)
\* for i := 1; i < len(keys); i++ { inner loop }
OuterLoop(q, i) ==
    IF i < Len(q) THEN OuterLoop(InnerLoop(q, i), i + 1) ELSE q

\* The insertion sort of checksumData.
SortKeys(q) == OuterLoop(q, 1)

RECURSIVE Fed(_, _)
\* What the loop over the sorted keys writes to the hash:
\* key, 0, value, 0 for every key.
Fed(q, d) ==
    IF q = << >> THEN << >>
    ELSE Head(q) \o <<0>> \o d[Head(q)] \o <<0>> \o Fed(Tail(q), d)

\* hex.EncodeToString(h.Sum(nil)) for SHA-256, idealised as collision free:
\* the digest is identified with the bytes it was computed from.
Sha256Hex(bytes) == << "sha256", bytes >>

\* checksumData(d) when `range d` delivers the keys in order o.
checksumData(d, o) ==
    LET fed == Fed(SortKeys(o), d)
    IN [fed |-> fed, sum |-> Sha256Hex(fed)]

InitSum ==
    /\ data \in DataMaps
    /\ data2 = data
    /\ orders = << >>
    /\ sums = << >>

IdleSum ==
    /\ InitSum
    /\ data = << >>

\* One call checksumData(data); the map iteration order is the runtime's
\* choice.  Two calls are made on each mapping, to be compared.
ChecksumData(o) ==
    /\ Len(orders) < 2
    /\ orders' = Append(orders, o)
    /\ sums' = Append(sums, checksumData(data, o))
    /\ UNCHANGED <<data, data2>>
    /\ UNCHANGED <<poolVars, randVars, dbVars, closeVars, secVars>>

\* Data mappings whose values may hold zero bytes and the byte of a key.
InjKeys == {<<1>>, <<2>>}
InjValues == {<< >>, <<0>>, <<1>>, <<0, 2, 0>>}
InjMaps == UNION {[ks -> InjValues] : ks \in SUBSET InjKeys}

InitInj ==
    /\ data \in InjMaps
    /\ data2 \in InjMaps
    /\ orders = << >>
    /\ sums = << >>

\* The call checksumData(data2) that follows the call on data.
ChecksumOther(o) ==
    /\ Len(orders) = 1
    /\ orders' = Append(orders, o)
    /\ sums' = Append(sums, checksumData(data2, o))
    /\ UNCHANGED <<data, data2>>
    /\ UNCHANGED <<poolVars, randVars, dbVars, closeVars, secVars>>

(***************************************************************************)
(* factory.Close                                                           *)
(***************************************************************************)
MaxCloses == 3

InitClose ==
    /\ clpc = [c \in Callers |-> "idle"]
    /\ clv = [c \in Callers |-> 0]
    /\ released = 0
    /\ panicked = FALSE
    /\ closes = 0

\* What the unsynchronised read of f.pool in Close may deliver to caller c:
\* a caller that has returned from Pool reads after the write inside
\* once.Do; for any other caller the read races with that write and may
\* deliver nil as well.
Visible(c) == IF cpc[c] = "returned" THEN {pool} ELSE {0, pool}

\* Calling Close on the pool without testing it for nil.
CloseAppliesAlways(v) == TRUE

\* if f.pool != nil
CloseApplies(v) == v # 0

\* (*pgxpool.Pool).Close releases the connections on its first call only.
PoolClose(r) == IF r = 0 THEN 1 ELSE r

\* A caller that is not inside Pool enters Close() and reads f.pool.
CloseCall(c) ==
    /\ clpc[c] \in {"idle", "done"}
    /\ cpc[c] \in {"idle", "returned"}
    /\ closes < MaxCloses
    /\ closes' = closes + 1
    /\ \E v \in Visible(c) :
          /\ clv' = [clv EXCEPT ![c] = v]
          /\ clpc' = [clpc EXCEPT ![c] = IF CloseApplies(v) THEN "release" ELSE "done"]
    /\ UNCHANGED <<released, panicked>>
    /\ UNCHANGED <<poolVars, randVars, dbVars, sumVars, secVars>>

\* f.pool.Close(); on a nil pool the call dereferences nil.
CloseRelease(c) ==
    /\ clpc[c] = "release"
    /\ IF clv[c] = 0
       THEN /\ panicked' = TRUE
            /\ UNCHANGED released
       ELSE /\ released' = PoolClose(released)
            /\ UNCHANGED panicked
    /\ clpc' = [clpc EXCEPT ![c] = "done"]
    /\ UNCHANGED <<clv, closes>>
    /\ UNCHANGED <<poolVars, randVars, dbVars, sumVars, secVars>>

(***************************************************************************)
(* UpsertOpaqueSecret (package k8s) against one namespace/name of the      *)
(* object store.                                                           *)
(***************************************************************************)
MaxUpserts == 2
MaxTouches == 5
MaxDeletes == 1
RetrySteps == 5

\* The reconcilers calling UpsertOpaqueSecret on the one key.
Upserters == {1, 2}
Owners == {"nil", "cr1", "cr2"}

\* A Go map value: nil, or a (possibly empty) mapping.
NilData == [nil |-> TRUE, m |-> << >>]
EmptyData == [nil |-> FALSE, m |-> << >>]
SecretMaps == [{<<1>>} -> {<<1>>}]

\* The (data, owner) arguments the callers pass.
UpsertArgs ==
    {<<NilData, "nil">>, <<EmptyData, "nil">>, <<EmptyData, "cr1">>}
        \cup {<<[nil |-> FALSE, m |-> d], ow>> : d \in SecretMaps, ow \in Owners}

NoAnn == << >>

\* What a Get delivers for a stored .data: the field is omitted from the
\* wire form when it has no entries, and decodes to a nil map.
Stored(d) == IF DOMAIN d.m = {} THEN NilData ELSE d

\* reflect.DeepEqual on two maps: both nil or both non-nil, and equal entries.
DeepEqual(a, b) == a.nil = b.nil /\ a.m = b.m

\* sum := checksumData(data)
Sum(d) == checksumData(d.m, CHOOSE o \in IterOrders(DOMAIN d.m) : TRUE).sum

Absent(v) == [exists |-> FALSE, data |-> NilData, ann |-> NoAnn, owner |-> "none", rv |-> v]

IdleUp ==
    [pc |-> "idle", data |-> NilData, owner |-> "nil", s_owner |-> "none",
     s_rv |-> 0, trail |-> << >>, ret |-> "none", path |-> "none", linked |-> FALSE,
     same |-> FALSE, w0 |-> 0]

InitSecret ==
    /\ secret = Absent(0)
    /\ ups = [u \in Upserters |-> IdleUp]
    /\ api = [calls |-> 0, writes |-> 0, touches |-> 0, deletes |-> 0]

IdleSecret == InitSecret

\* Retrying after any failed attempt, not only after a conflict.
RetryGoesOnAnyError(err, n) == err # "ok" /\ n < RetrySteps

\* retry.RetryOnConflict(retry.DefaultRetry, fn): fn runs again only after a
\* conflict, and at most DefaultRetry.Steps times in all.
RetryGoesOn(err, n) == err = "conflict" /\ n < RetrySteps

\* controllerutil.SetControllerReference: refused when the object already
\* has another controller owner.
OwnerRefused(ow, cur) == ow # "nil" /\ cur \notin {"none", ow}

\* ups[u].same: this call repeats the caller's previous one, which had
\* succeeded; ups[u].w0: the writes accepted when this call began.
\* The call of u returns r; sec is the stored object after the step.
Returns(u, r, sec, pth, tr) ==
    ups' = [ups EXCEPT ![u] =
             [@ EXCEPT !.pc = "returned", !.ret = r, !.path = pth, !.trail = tr,
                       !.s_owner = "none", !.s_rv = 0,
                       !.linked = (sec.exists /\ sec.owner = ups[u].owner)]]

UpsertCall(u, d, ow) ==
    /\ ups[u].pc \in {"idle", "returned"}
    /\ api.calls < MaxUpserts
    /\ ups' = [ups EXCEPT ![u] =
                [@ EXCEPT !.pc = "get", !.data = d, !.owner = ow,
                          !.trail = << >>, !.ret = "none", !.path = "none",
                          !.linked = FALSE, !.s_owner = "none", !.s_rv = 0,
                          !.same = (ups[u].ret = "nil" /\ ups[u].data = d
                                    /\ ups[u].owner = ow),
                          !.w0 = api.writes]]
    /\ api' = [api EXCEPT !.calls = @ + 1]
    /\ UNCHANGED secret
    /\ UNCHANGED <<poolVars, randVars, dbVars, sumVars, closeVars>>

\* c.Get, then: the create branch when the object is absent, return nil when
\* data and checksum annotation match, the update branch otherwise.
UpsertGet(u) ==
    /\ ups[u].pc = "get"
    /\ \E fail \in BOOLEAN :
          IF fail
          THEN Returns(u, "error", secret, "none", << >>)
          ELSE IF ~secret.exists
          THEN ups' = [ups EXCEPT ![u] = [@ EXCEPT !.pc = "create", !.path = "create"]]
          ELSE IF DeepEqual(secret.data, ups[u].data) /\ secret.ann = Sum(ups[u].data)
          THEN Returns(u, "nil", secret, "noop", << >>)
          ELSE ups' = [ups EXCEPT ![u] = [@ EXCEPT !.pc = "refetch", !.path = "update"]]
    /\ UNCHANGED <<secret, api>>
    /\ UNCHANGED <<poolVars, randVars, dbVars, sumVars, closeVars>>

\* Submitting the data and the owner link with the annotation left as stored.
SubmittedKeepsAnn(d, ow, v) ==
    [exists |-> TRUE, data |-> Stored(d), ann |-> secret.ann, owner |-> ow, rv |-> v]

\* The object UpsertOpaqueSecret submits: data, its checksum, the owner link.
Submitted(d, ow, v) ==
    [exists |-> TRUE, data |-> Stored(d), ann |-> Sum(d), owner |-> ow, rv |-> v]

\* return c.Create(ctx, &s)
UpsertCreate(u) ==
    /\ ups[u].pc = "create"
    /\ \E fail \in BOOLEAN :
          IF fail
          THEN /\ Returns(u, "error", secret, "create", << >>)
               /\ UNCHANGED <<secret, api>>
          ELSE IF secret.exists
          THEN /\ Returns(u, "exists", secret, "create", << >>)
               /\ UNCHANGED <<secret, api>>
          ELSE LET sec == Submitted(ups[u].data,
                                    IF ups[u].owner = "nil" THEN "none" ELSE ups[u].owner,
                                    secret.rv + 1)
                   a == [api EXCEPT !.writes = @ + 1]
               IN /\ secret' = sec
                  /\ api' = a
                  /\ Returns(u, "nil", sec, "create", << >>)
    /\ UNCHANGED <<poolVars, randVars, dbVars, sumVars, closeVars>>

\* An attempt of the retried function has ended with outcome err.
AttemptEnds(u, err, sec) ==
    LET tr == Append(ups[u].trail, err)
    IN IF RetryGoesOn(err, Len(tr))
       THEN ups' = [ups EXCEPT ![u] = [@ EXCEPT !.pc = "refetch", !.trail = tr]]
       ELSE Returns(u, IF err = "ok" THEN "nil" ELSE err, sec, "update", tr)

\* Inside the retried function: c.Get, then annotation, data and owner are
\* set on the fetched object.
UpsertRefetch(u) ==
    /\ ups[u].pc = "refetch"
    /\ \E fail \in BOOLEAN :
          IF fail
          THEN AttemptEnds(u, "error", secret)
          ELSE IF ~secret.exists
          THEN AttemptEnds(u, "notfound", secret)
          ELSE IF OwnerRefused(ups[u].owner, secret.owner)
          THEN AttemptEnds(u, "owned", secret)
          ELSE ups' = [ups EXCEPT ![u] =
                        [@ EXCEPT !.pc = "update", !.s_rv = secret.rv,
                                  !.s_owner = IF ups[u].owner = "nil" THEN secret.owner
                                              ELSE ups[u].owner]]
    /\ UNCHANGED <<secret, api>>
    /\ UNCHANGED <<poolVars, randVars, dbVars, sumVars, closeVars>>

\* Inside the retried function: return c.Update(ctx, &s).  The store
\* rejects an object fetched before the latest write; a write that changes
\* nothing leaves the version marker as it is.
UpsertUpdate(u) ==
    /\ ups[u].pc = "update"
    /\ \E fail \in BOOLEAN :
          IF fail
          THEN /\ AttemptEnds(u, "error", secret)
               /\ UNCHANGED <<secret, api>>
          ELSE IF ~secret.exists
          THEN /\ AttemptEnds(u, "notfound", secret)
               /\ UNCHANGED <<secret, api>>
          ELSE IF ups[u].s_rv # secret.rv
          THEN /\ AttemptEnds(u, "conflict", secret)
               /\ UNCHANGED <<secret, api>>
          ELSE LET new == Submitted(ups[u].data, ups[u].s_owner, secret.rv)
                   sec == IF new # secret THEN [new EXCEPT !.rv = secret.rv + 1] ELSE secret
                   a == [api EXCEPT !.writes = @ + 1]
               IN /\ secret' = sec
                  /\ api' = a
                  /\ AttemptEnds(u, "ok", sec)
    /\ UNCHANGED <<poolVars, randVars, dbVars, sumVars, closeVars>>

\* Another client writes the object's metadata (not its data or checksum),
\* taken where it interferes: after a caller's fetch, before its Update.
Touch ==
    /\ secret.exists
    /\ \E u \in Upserters : ups[u].pc = "update" /\ ups[u].s_rv = secret.rv
    /\ api.touches < MaxTouches
    /\ secret' = [secret EXCEPT !.rv = @ + 1]
    /\ api' = [api EXCEPT !.touches = @ + 1]
    /\ UNCHANGED ups
    /\ UNCHANGED <<poolVars, randVars, dbVars, sumVars, closeVars>>

\* Another client (or the garbage collector) deletes the object, taken
\* where it interferes: while a caller is on the update branch.
Delete ==
    /\ secret.exists
    /\ \E u \in Upserters : ups[u].pc \in {"refetch", "update"}
    /\ api.deletes < MaxDeletes
    /\ secret' = Absent(secret.rv + 1)
    /\ api' = [api EXCEPT !.deletes = @ + 1]
    /\ UNCHANGED ups
    /\ UNCHANGED <<poolVars, randVars, dbVars, sumVars, closeVars>>

(***************************************************************************)
(* Specifications.                                                         *)
(***************************************************************************)
NextPool ==
    \E c \in Callers :
       \/ \E cx \in Contexts : PoolCall(c, cx)
       \/ OnceDo(c)
       \/ OnceLock(c)
       \/ BodyParse(c)
       \/ BodyNew(c)
       \/ PoolReturn(c)

StartPool == InitPool /\ InitRand /\ IdleDb /\ IdleSum /\ InitClose /\ IdleSecret

SpecPool == StartPool /\ [][NextPool]_vars

NextPw ==
    \/ \E n \in PwArgs : RandPasswordCall(n)
    \/ RandPasswordStep

StartPw == IdlePool /\ InitRand /\ IdleDb /\ IdleSum /\ InitClose /\ IdleSecret

SpecPw == StartPw /\ [][NextPw]_vars

\* rand.Read delivering byte b in a direct RandPassword call.
RandPasswordRead(b) ==
    /\ rp_pc = "loop"
    /\ op = "none"
    /\ rp_i < rp_n
    /\ RandIter(b)
    /\ UNCHANGED <<poolVars, dbVars, sumVars, closeVars, secVars>>

\* The loop keeps running and the entropy source delivers every sampled byte
\* value again and again.
FairSpecPw ==
    /\ SpecPw
    /\ WF_vars(RandPasswordStep)
    /\ \A b \in EntropySample : WF_vars(RandPasswordRead(b))

NextDb ==
    \/ \E rot \in Intervals : EnsureDatabaseRoleCall(rot)
    \/ EnsureCreateRole
    \/ EnsureCreateDb
    \/ EnsureGrant
    \/ EnsureRotation
    \/ EnsureRandPassword
    \/ DropDatabaseAndRoleCall
    \/ DropDatabaseAndRoleStep
    \/ RevokeAndKillSessionsCall
    \/ RevokeAndKillSessionsStep
    \/ \E x \in SessionKinds : ClientConnect(x)

StartDb == IdlePool /\ InitRand /\ InitDb /\ IdleSum /\ InitClose /\ IdleSecret

SpecDb == StartDb /\ [][NextDb]_vars

\* rand.Read delivering byte b to the RandPassword call of EnsureDatabaseRole.
EnsureRead(b) ==
    /\ op = "ensure"
    /\ opc = "randpw"
    /\ rp_i < rp_n
    /\ RandIter(b)
    /\ UNCHANGED <<dbVars, poolVars, sumVars, closeVars, secVars>>

\* A called operation keeps running (no step of the administrator is
\* postponed forever) and the entropy source delivers every sampled byte
\* value again and again.
FairSpecDb ==
    /\ SpecDb
    /\ WF_vars(EnsureCreateRole)
    /\ WF_vars(EnsureCreateDb)
    /\ WF_vars(EnsureGrant)
    /\ WF_vars(EnsureRotation)
    /\ WF_vars(EnsureRandPassword)
    /\ \A b \in EntropySample : WF_vars(EnsureRead(b))

NextSum == \E o \in IterOrders(DOMAIN data) : ChecksumData(o)

StartSum == IdlePool /\ InitRand /\ IdleDb /\ InitSum /\ InitClose /\ IdleSecret

SpecSum == StartSum /\ [][NextSum]_vars


NextInj ==
    \/ Len(orders) = 0 /\ \E o \in IterOrders(DOMAIN data) : ChecksumData(o)
    \/ \E o \in IterOrders(DOMAIN data2) : ChecksumOther(o)

StartInj == IdlePool /\ InitRand /\ IdleDb /\ InitInj /\ InitClose /\ IdleSecret

SpecInj == StartInj /\ [][NextInj]_vars


\* The goroutines that share one factory and call both Pool and Close.
Sharers == {1, 2}

NextFactory ==
    \E c \in Sharers :
       \/ clpc[c] # "release" /\ \E cx \in Contexts : PoolCall(c, cx)
       \/ OnceDo(c)
       \/ OnceLock(c)
       \/ BodyParse(c)
       \/ BodyNew(c)
       \/ PoolReturn(c)
       \/ CloseCall(c)
       \/ CloseRelease(c)

StartFactory == InitPool /\ InitRand /\ IdleDb /\ IdleSum /\ InitClose /\ IdleSecret

SpecFactory == StartFactory /\ [][NextFactory]_vars

NextSecret ==
    \/ \E u \in Upserters, a \in UpsertArgs : UpsertCall(u, a[1], a[2])
    \/ \E u \in Upserters : UpsertGet(u)
    \/ \E u \in Upserters : UpsertCreate(u)
    \/ \E u \in Upserters : UpsertRefetch(u)
    \/ \E u \in Upserters : UpsertUpdate(u)
    \/ Touch
    \/ Delete

StartSecret == IdlePool /\ InitRand /\ IdleDb /\ IdleSum /\ InitClose /\ InitSecret

SpecSecret == StartSecret /\ [][NextSecret]_vars


(***************************************************************************)
(* Properties of factory.Pool.                                             *)
(***************************************************************************)
\* What the factory has cached once initialisation is over.
Cached ==
    IF initErr # "nil" THEN [pool |-> 0, err |-> initErr]
                       ELSE [pool |-> pool, err |-> "nil"]

\* C1: however many Pool calls run, concurrently or one after another, the
\* initialisation body starts at most once; a call that has returned did so
\* after that one attempt had completed; all calls return the same outcome,
\* which is either a pool with a nil error or an error with a nil pool; so no
\* call after a failed attempt initialises again, whatever its context.
C1_SingleInit ==
    /\ initRuns <= 1
    /\ Cardinality(outcomes) <= 1
    /\ \A o \in outcomes :
          \/ (o.pool # 0 /\ o.err = "nil")
          \/ (o.pool = 0 /\ o.err \in {"parse", "connect"})
    /\ \A c \in Callers :
          cpc[c] = "returned" =>
             /\ once.done
             /\ initRuns = 1
             /\ \A d \in Callers : cpc[d] \notin {"parse", "new"}
             /\ cret[c] = Cached

\* C1 witness: the attempt failed; two callers have returned, one of them
\* from its second call, with different contexts.
C1_Witness ==
    /\ initErr # "nil"
    /\ \E c, d \in Callers :
          /\ c # d
          /\ cpc[c] = "returned" /\ cpc[d] = "returned"
          /\ cctx[c] # cctx[d]
          /\ ccalls[c] = MaxCalls
          /\ cret[c] = cret[d]


(***************************************************************************)
(* Properties of RandPassword.                                             *)
(***************************************************************************)
\* The largest multiple of the alphabet size that is a byte value.
LargestMultiple ==
    CHOOSE m \in Byte :
       /\ m % Len(pwAlphabet) = 0
       /\ \A k \in Byte : k % Len(pwAlphabet) = 0 => k <= m

\* The byte values that select character ch.
Selecting(ch) == {b \in Byte : ~Rejected(b) /\ Pick(b) = ch}

\* C2: a call RandPassword(n), with the entropy source delivering every byte
\* value again and again, returns; the result has n characters when n > 0
\* and 24 when n <= 0, all of them alphabet characters.
C2_ReturnsPassword ==
    (rp_pc = "loop") ~>
       (/\ rp_pc = "returned"
        /\ Len(rp_out) = (IF rp_req > 0 THEN rp_req ELSE DefaultLen)
        /\ \A k \in 1..Len(rp_out) : rp_out[k] \in AlphabetChars)

\* C3: while RandPassword samples, its threshold is the largest multiple of
\* the alphabet size in the byte range, a byte is rejected exactly when it
\* is at or above it, every character is selected by equally many byte
\* values, and some byte value is accepted.
C3_UniformThreshold ==
    rp_pc = "loop" =>
       /\ limit = LargestMultiple
       /\ \A b \in Byte : Rejected(b) <=> b >= LargestMultiple
       /\ \A c1, c2 \in AlphabetChars :
             Cardinality(Selecting(c1)) = Cardinality(Selecting(c2))
       /\ \E b \in Byte : ~Rejected(b)


(***************************************************************************)
(* Properties of the administrator operations.                             *)
(***************************************************************************)
EnsureOrder == << "create_role", "create_db", "grant_all", "alter_password" >>
TeardownOrder == << "terminate_db", "revoke_connect", "drop_db", "drop_role" >>

UserSessions == {x \in cluster.sessions : x.usr = User}

\* C4: a call of EnsureDatabaseRole, from whatever cluster state, in which no
\* statement fails eventually returns with no error, rotated = true and a
\* password of 24 characters, the role existing and the database existing
\* and owned by the role.
C4_Converges ==
    (op = "ensure" /\ opc = "create_role") ~>
       \/ ~AllOk(stmts)
       \/ /\ op = "ensure" /\ opc = "returned"
          /\ opret.err = "nil"
          /\ opret.rotated
          /\ Len(opret.pw) = PwLen
          /\ cluster.role /\ cluster.db /\ cluster.owner = User

\* C5: whatever the interval string of a call of EnsureDatabaseRole (zero,
\* positive, negative, unparsable), a call in which no statement fails
\* issues the same four statements, the last one changing the role's
\* password, and reports rotated = true.
C5_IntervalIgnored ==
    \A rot \in Intervals :
       (op = "ensure" /\ opc = "create_role" /\ rotation = rot) ~>
          \/ ~AllOk(stmts)
          \/ /\ op = "ensure" /\ opc = "returned" /\ rotation = rot
             /\ Names(stmts) = EnsureOrder
             /\ opret.rotated

\* C6: Teardown issues terminate-sessions, revoke-connect, drop-database,
\* drop-role in this order; it goes on to the next statement whether or not
\* a statement failed, and it returns, after all four, without error.
C6_TeardownOrder ==
    op = "teardown" =>
       /\ Len(stmts) <= Len(TeardownOrder)
       /\ Names(stmts) = SubSeq(TeardownOrder, 1, Len(stmts))
       /\ opc = "exec" => Len(stmts) < Len(TeardownOrder)
       /\ opc = "returned" => (Len(stmts) = Len(TeardownOrder) /\ opret.err = "nil")

\* C6 witness: Teardown has returned although its first and third
\* statements failed.
C6_Witness ==
    /\ op = "teardown" /\ opc = "returned"
    /\ Len(stmts) = Len(TeardownOrder)
    /\ ~stmts[1].ok /\ ~stmts[3].ok /\ stmts[2].ok

\* C7: when Teardown has returned and the database or the role still
\* exists, the caller has been given an error and both the database and the
\* role are as they were before the call.
C7_NoSilentFailure ==
    (op = "teardown" /\ opc = "returned" /\ (cluster.db \/ cluster.role)) =>
       /\ opret.err # "nil"
       /\ cluster.db = startCluster.db
       /\ cluster.role = startCluster.role

\* C8: a Teardown called when neither the database nor the role exists
\* leaves the cluster as it found it and returns no error.
C8_TeardownAbsentNoop ==
    (op = "teardown" /\ ~startCluster.db /\ ~startCluster.role) =>
       /\ cluster = startCluster
       /\ opc = "returned" => opret.err = "nil"

\* C8 witness: such a Teardown has returned, as the second operation, its
\* REVOKE having failed on the missing database.
C8_Witness ==
    /\ op = "teardown" /\ opc = "returned"
    /\ ~startCluster.db /\ ~startCluster.role
    /\ opsRun = MaxOps
    /\ ~stmts[2].ok
    /\ opret.err = "nil"

\* C9: when SuspendAccess has returned, all its statements having
\* succeeded, the user owns no session, holds no privileges on the database
\* and cannot log in, while the database and the role still exist.
C9_AccessCut ==
    (op = "suspend" /\ opc = "returned" /\ AllOk(stmts)) =>
       /\ UserSessions = {}
       /\ ~cluster.grantAll
       /\ ~cluster.login
       /\ cluster.db /\ cluster.role


(***************************************************************************)
(* Properties of checksumData.                                             *)
(***************************************************************************)
\* C10: all calls of checksumData on one data mapping, whatever the order
\* in which the map delivered its keys, feed the same bytes to the hash and
\* return the same checksum.
C10_OrderIndependent ==
    \A a, b \in 1..Len(sums) :
       /\ sums[a].fed = sums[b].fed
       /\ sums[a].sum = sums[b].sum

\* C10 witness: two calls on a mapping of MaxKeys keys that met two
\* different iteration orders, neither of them sorted.
C10_Witness ==
    /\ Cardinality(DOMAIN data) = MaxKeys
    /\ Len(sums) = 2
    /\ orders[1] # orders[2]
    /\ SortKeys(orders[1]) # orders[1]
    /\ SortKeys(orders[2]) # orders[2]
    /\ sums[1] = sums[2]


\* C18: the bytes checksumData feeds to the hash determine the data
\* mapping: two mappings that feed the same bytes are the same mapping.
C18_FedDeterminesData ==
    (Len(sums) = 2 /\ sums[1].fed = sums[2].fed) => data = data2


(***************************************************************************)
(* Properties of factory.Close together with factory.Pool.                 *)
(***************************************************************************)
\* C16: Close never fails and releases nothing while no pool was created;
\* every Close that found the pool leaves it released, and the pool is
\* released once however many times Close is called, also when an earlier
\* Close ran before the pool existed.
C16_CloseIdempotent ==
    /\ ~panicked
    /\ released <= 1
    /\ (pool = 0 => released = 0)
    /\ \A c \in Callers : (clpc[c] = "done" /\ clv[c] # 0) => released = 1

\* C16 witness: one goroutine's Close found no pool and did nothing, the
\* pool exists, the other goroutine's Close released it, and Close has been
\* called MaxCloses times in all.
C16_Witness ==
    /\ closes = MaxCloses
    /\ pool # 0
    /\ released = 1
    /\ \E c, d \in Callers :
          /\ clpc[c] = "done" /\ clv[c] = 0
          /\ clpc[d] = "done" /\ clv[d] # 0

\* C20: a Pool call that returns a nil error returns a pool that no earlier
\* Close has released; in particular a goroutine whose own Close has
\* released the pool gets no nil error from the Pool call it makes next.
C20_NoReleasedPool ==
    [][\A c \in Callers :
          (cpc[c] = "read" /\ cpc'[c] = "returned" /\ cret'[c].err = "nil")
             => ~(clpc[c] = "done" /\ clv[c] # 0 /\ released = 1)]_vars


(***************************************************************************)
(* Properties of UpsertOpaqueSecret.                                       *)
(***************************************************************************)
Others(u) == Upserters \ {u}

Quiet(u) ==
    /\ api.touches = 0
    /\ api.deletes = 0
    /\ \A v \in Others(u) : ups[v].pc = "idle"

\* C11: a call that repeats the same caller's previous successful call
\* (same data, same owner), with no other writer on the key, issues no write.
C11_SecondCallWritesNothing ==
    \A u \in Upserters :
       (ups[u].pc = "returned" /\ ups[u].same /\ Quiet(u)) => api.writes = ups[u].w0

\* C12: the checksum annotation of the stored object is the checksum of the
\* data stored in it.
C12_AnnotationMatchesData ==
    secret.exists => secret.ann = Sum(secret.data)

\* C12 witness: the object was created and later rewritten with other data
\* by a call on the update branch.
C12_Witness ==
    /\ secret.exists
    /\ api.writes >= 2
    /\ \E u \in Upserters :
          /\ ups[u].pc = "returned" /\ ups[u].path = "update" /\ ups[u].ret = "nil"
          /\ secret.data = Stored(ups[u].data)
          /\ secret.data # NilData

\* C13: on the update branch every attempt but the last ended in a
\* conflict, there are at most RetrySteps attempts, a call that returns a
\* conflict has used all of them, and the call returns what its last
\* attempt returned.
C13_BoundedRetry ==
    \A u \in Upserters :
       LET t == ups[u].trail
           n == Len(t)
       IN /\ n <= RetrySteps
          /\ \A i \in 1..(n - 1) : t[i] = "conflict"
          /\ ups[u].pc \in {"refetch", "update"} =>
                /\ n < RetrySteps
                /\ \A i \in 1..n : t[i] = "conflict"
          /\ (ups[u].pc = "returned" /\ ups[u].path = "update") =>
                /\ n >= 1
                /\ ups[u].ret = (IF t[n] = "ok" THEN "nil" ELSE t[n])
                /\ (t[n] = "conflict" => n = RetrySteps)

\* C13 witness: a call met a conflict on each of its RetrySteps attempts and
\* returned the conflict.
C13_Witness ==
    \E u \in Upserters :
       /\ ups[u].pc = "returned"
       /\ ups[u].ret = "conflict"
       /\ Len(ups[u].trail) = RetrySteps

\* C14: no call returns a not-found error.
C14_NeverNotFound ==
    \A u \in Upserters : ups[u].ret # "notfound"

\* C15: when a call given an owner returns without error, the stored object
\* carries the link to that owner.
C15_OwnerLinked ==
    \A u \in Upserters :
       (ups[u].pc = "returned" /\ ups[u].ret = "nil" /\ ups[u].owner # "nil")
          => ups[u].linked

\* C17: no call fails because the object was created by another call after
\* its fetch had found the object absent.
C17_RaceOnCreate ==
    \A u \in Upserters : ups[u].ret # "exists"


====
